---- MODULE Spec2Model ----
(***************************************************************************)
(* Model of watchlist.py: a command-line stock watchlist.  The watchlist   *)
(* is one JSON file; every command is one process run that loads the file, *)
(* acts, and (add/remove) rewrites it.  Quotes come from one HTTP request. *)
(*                                                                         *)
(* Strings are sequences of code points, so that str.upper() and the       *)
(* code-point order used by sorted() are computed, not assumed:            *)
(*   "A" = <<65>>   "a" = <<97>>   "Ab" = <<65, 98>>   "7" = <<55>>         *)
(***************************************************************************)
EXTENDS Integers, Sequences, FiniteSets

VARIABLES
    file,       \* content of WATCHLIST_PATH
    run,        \* the last process run: command, arguments, outcome, output
    prior,      \* for a list run: the run that came right before it
    added,      \* history: every ticker ever passed to add
    T,          \* the list last handed to save_watchlist directly
    loaded,     \* the result of the last direct load_watchlist call
    pc,         \* position of the direct calls: what was called last, or how
                \* the request of a direct fetch_quotes call went
    requested,  \* tickers of the last direct fetch_quotes call
    response,   \* result list the quote service gave to that call
    fetched     \* what that call returned or raised

vars == <<file, run, prior, added, T, loaded, pc, requested, response, fetched>>

-----------------------------------------------------------------------------
(* Bounds of the model *)

MaxArgs == 2        \* tickers on one command line
MaxFileLen == 2     \* entries of a watchlist file found on disk
MaxAddArgs == 3     \* tickers on one command line of an add-only sequence
MaxSaveLen == 3     \* entries of a list passed to save_watchlist directly
MaxResults == 2     \* entries of a response's result list

-----------------------------------------------------------------------------
(* Strings *)

\* The ticker spellings a user types: A, a, Ab.
Tickers == { <<65>>, <<97>>, <<65, 98>> }

Range(s) == { s[i] : i \in DOMAIN s }

SeqsUpTo(S, n) == UNION { [1..k -> S] : k \in 0..n }

NonEmptySeqsUpTo(S, n) == UNION { [1..k -> S] : k \in 1..n }

\* str.upper() on one code point: a..z map to A..Z, everything else stays.
UpperChar(c) == IF c >= 97 /\ c <= 122 THEN c - 32 ELSE c

\* str.upper()
Upper(s) == [i \in DOMAIN s |-> UpperChar(s[i])]

\* Python's < on str: code-point lexicographic order, a proper prefix first.
StrLess(a, b) ==
    \/ /\ Len(a) < Len(b)
       /\ \A i \in 1..Len(a) : a[i] = b[i]
    \/ \E k \in 1..Len(a) :
          /\ k <= Len(b)
          /\ a[k] < b[k]
          /\ \A i \in 1..(k - 1) : a[i] = b[i]

RECURSIVE SortedSet(_)
\* sorted(set(...)) of strings, given the set
SortedSet(S) ==
    IF S = {} THEN <<>>
    ELSE LET m == CHOOSE x \in S : \A y \in S : x = y \/ StrLess(x, y)
         IN  <<m>> \o SortedSet(S \ {m})

RECURSIVE Digits(_)
\* str(n) for a non-negative int
Digits(n) == IF n < 10 THEN <<48 + n>> ELSE Digits(n \div 10) \o <<48 + (n % 10)>>

-----------------------------------------------------------------------------
(* JSON values of the watchlist file *)

StrItem(s) == [kind |-> "str", s |-> s, n |-> 0]
NumItem(n) == [kind |-> "num", s |-> <<>>, n |-> n]
NullItem == [kind |-> "null", s |-> <<>>, n |-> 0]

\* str(item) for a decoded JSON element: a str is itself, 7 is "7", null is "None".
Str(item) ==
    CASE item.kind = "str" -> item.s
      [] item.kind = "num" -> Digits(item.n)
      [] OTHER -> <<78, 111, 110, 101>>

Absent == [kind |-> "absent", items |-> <<>>]
ArrayFile(items) == [kind |-> "array", items |-> items]
\* valid JSON that is no array (an object, a number, a string)
OtherJsonFile == [kind |-> "json_other", items |-> <<>>]
\* not JSON at all: json.load raises JSONDecodeError, a ValueError
InvalidFile == [kind |-> "invalid", items |-> <<>>]

\* Elements a file found on disk may hold when a command runs.
DiskItems == { StrItem(t) : t \in Tickers } \cup { NumItem(7) }

FilesOf(items) ==
    { Absent, OtherJsonFile, InvalidFile }
        \cup { ArrayFile(l) : l \in SeqsUpTo(items, MaxFileLen) }

DiskFiles == FilesOf(DiskItems)

\* Files handed to load_watchlist on its own: null elements too.
JsonFiles == FilesOf(DiskItems \cup { NullItem })

-----------------------------------------------------------------------------
(* Watchlist store *)

Ok(v) == [exc |-> "none", value |-> v]
Raise(e) == [exc |-> e, value |-> <<>>]

\* load_watchlist without the .upper() of line 33
load_watchlist_NoUpper(f) ==
    IF f.kind = "absent" THEN Ok(<<>>)
    ELSE IF f.kind # "array" THEN Raise("ValueError")
    ELSE Ok([i \in DOMAIN f.items |-> Str(f.items[i])])

load_watchlist(f) ==
    IF f.kind = "absent" THEN Ok(<<>>)
    ELSE IF f.kind = "invalid" THEN Raise("ValueError")
    ELSE IF f.kind # "array" THEN Raise("ValueError")
    ELSE Ok([i \in DOMAIN f.items |-> Upper(Str(f.items[i]))])

\* save_watchlist dumping the list as given, without sorted(set(...))
save_watchlist_Unsorted(tickers) ==
    ArrayFile([i \in DOMAIN tickers |-> StrItem(tickers[i])])

save_watchlist(tickers) ==
    LET sorted == SortedSet(Range(tickers))
    IN  ArrayFile([i \in DOMAIN sorted |-> StrItem(sorted[i])])

-----------------------------------------------------------------------------
(* Quote service client *)

Entry(hasSymbol, symbol, hasPrice, price, currency) ==
    [hasSymbol |-> hasSymbol, symbol |-> symbol,
     hasPrice |-> hasPrice, price |-> price, currency |-> currency]

\* "USD"; the empty string stands for an absent (None) currency.
USD == <<85, 83, 68>>

Quote(symbol, price, currency) ==
    [symbol |-> symbol, price |-> price, currency |-> currency]

\* quotes[key] = quote on a dict kept as its items in insertion order:
\* an existing key keeps its place and takes the new value.
DictPut(quotes, quote) ==
    IF \E i \in DOMAIN quotes : quotes[i].symbol = quote.symbol
    THEN [i \in DOMAIN quotes |->
            IF quotes[i].symbol = quote.symbol THEN quote ELSE quotes[i]]
    ELSE Append(quotes, quote)

\* the test written as "if symbol and price": a price of 0 is dropped
Materialized_Truthy(entry) ==
    /\ entry.hasSymbol
    /\ entry.symbol # <<>>
    /\ entry.hasPrice
    /\ entry.price # 0

\* entry.get("symbol") is truthy and entry.get("regularMarketPrice") is not None
Materialized(entry) ==
    /\ entry.hasSymbol
    /\ entry.symbol # <<>>
    /\ entry.hasPrice

RECURSIVE ParseResults(_, _)
\* the loop over results, quotes being the dict built so far
ParseResults(results, quotes) ==
    IF results = <<>> THEN quotes
    ELSE LET entry == Head(results)
             next == IF Materialized(entry)
                     THEN DictPut(quotes,
                                  Quote(Upper(entry.symbol), entry.price, entry.currency))
                     ELSE quotes
         IN  ParseResults(Tail(results), next)

\* What can happen to the one HTTP request.
NetOutcomes ==
    { "ok", "refused", "dns", "http_error", "connect_timeout", "read_timeout" }

NetFailures == NetOutcomes \ { "ok" }

\* The exception class that leaves the try block.  urlopen wraps the OSError of
\* sending the request in URLError (HTTPError is a URLError); a timeout while
\* waiting for or reading the response is raised as it is, a TimeoutError.
UrlopenRaises(outcome) ==
    CASE outcome = "ok" -> "none"
      [] outcome = "http_error" -> "HTTPError"
      [] outcome = "read_timeout" -> "TimeoutError"
      [] OTHER -> "URLError"

\* except urllib.error.URLError
IsURLError(cls) == cls \in { "URLError", "HTTPError" }

\* fetch_quotes without the early return on an empty ticker list
fetch_quotes_NoShortcut(tickers, outcome, results) ==
    IF UrlopenRaises(outcome) = "none"
    THEN [exc |-> "none", quotes |-> ParseResults(results, <<>>), calls |-> 1]
    ELSE IF IsURLError(UrlopenRaises(outcome))
         THEN [exc |-> "RuntimeError", quotes |-> <<>>, calls |-> 1]
    ELSE [exc |-> UrlopenRaises(outcome), quotes |-> <<>>, calls |-> 1]

fetch_quotes(tickers, outcome, results) ==
    IF tickers = <<>> THEN [exc |-> "none", quotes |-> <<>>, calls |-> 0]
    ELSE IF UrlopenRaises(outcome) = "none"
         THEN [exc |-> "none", quotes |-> ParseResults(results, <<>>), calls |-> 1]
    ELSE IF IsURLError(UrlopenRaises(outcome))
         THEN [exc |-> "RuntimeError", quotes |-> <<>>, calls |-> 1]
    ELSE [exc |-> UrlopenRaises(outcome), quotes |-> <<>>, calls |-> 1]

\* The symbols print_quotes lists, in the order it lists them.
print_quotes(quotes) == SortedSet({ quotes[i].symbol : i \in DOMAIN quotes })

NoCsv == [asked |-> FALSE, written |-> FALSE, rows |-> <<>>]

\* The rows export_csv writes to the CSV path (the symbol column), if it writes.
export_csv(quotes) ==
    IF quotes = <<>> THEN [asked |-> TRUE, written |-> FALSE, rows |-> <<>>]
    ELSE [asked |-> TRUE, written |-> TRUE,
          rows |-> [i \in DOMAIN quotes |-> quotes[i].symbol]]

-----------------------------------------------------------------------------
(* Command handlers: each yields the file it leaves and what it printed *)

\* no count was printed
NoCount == 0 - 1

Outcome(f, exc, count, listed, calls, quotes, csv) ==
    [file |-> f, exc |-> exc, count |-> count, listed |-> listed,
     calls |-> calls, quotes |-> quotes, csv |-> csv]

Failed(f, exc, calls) == Outcome(f, exc, NoCount, <<>>, calls, <<>>, NoCsv)

\* add_tickers saving the arguments as typed
add_tickers_NoUpper(f, tickers) ==
    LET existing == load_watchlist(f)
    IN  IF existing.exc # "none" THEN Failed(f, existing.exc, 0)
        ELSE Outcome(save_watchlist(existing.value \o tickers), "none",
                     Len(tickers), <<>>, 0, <<>>, NoCsv)

\* add_tickers opening the file for writing before the load has succeeded
add_tickers_SaveFirst(f, tickers) ==
    LET existing == load_watchlist(f)
        additions == [i \in DOMAIN tickers |-> Upper(tickers[i])]
    IN  IF existing.exc # "none"
        THEN Failed(save_watchlist(additions), existing.exc, 0)
        ELSE Outcome(save_watchlist(existing.value \o additions), "none",
                     Len(additions), <<>>, 0, <<>>, NoCsv)

add_tickers(f, tickers) ==
    LET existing == load_watchlist(f)
        additions == [i \in DOMAIN tickers |-> Upper(tickers[i])]
    IN  IF existing.exc # "none" THEN Failed(f, existing.exc, 0)
        ELSE Outcome(save_watchlist(existing.value \o additions), "none",
                     Len(additions), <<>>, 0, <<>>, NoCsv)

\* remove_tickers matching the arguments as typed
remove_tickers_CaseSensitive(f, tickers) ==
    LET existing == load_watchlist(f)
        to_remove == Range(tickers)
        updated == SelectSeq(existing.value, LAMBDA t : t \notin to_remove)
    IN  IF existing.exc # "none" THEN Failed(f, existing.exc, 0)
        ELSE Outcome(save_watchlist(updated), "none",
                     Len(existing.value) - Len(updated), <<>>, 0, <<>>, NoCsv)

remove_tickers(f, tickers) ==
    LET existing == load_watchlist(f)
        to_remove == { Upper(tickers[i]) : i \in DOMAIN tickers }
        updated == SelectSeq(existing.value, LAMBDA t : t \notin to_remove)
    IN  IF existing.exc # "none" THEN Failed(f, existing.exc, 0)
        ELSE Outcome(save_watchlist(updated), "none",
                     Len(existing.value) - Len(updated), <<>>, 0, <<>>, NoCsv)

list_watchlist(f) ==
    LET watchlist == load_watchlist(f)
    IN  IF watchlist.exc # "none" THEN Failed(f, watchlist.exc, 0)
        ELSE Outcome(f, "none", NoCount, watchlist.value, 0, <<>>, NoCsv)

\* print_quotes, print_summary and the optional export after a fetch
Present(f, got, csv) ==
    IF got.exc # "none" THEN Failed(f, got.exc, got.calls)
    ELSE Outcome(f, "none", NoCount, print_quotes(got.quotes), got.calls, got.quotes,
                 IF csv THEN export_csv(got.quotes) ELSE NoCsv)

refresh_watchlist(f, csv, outcome, results) ==
    LET watchlist == load_watchlist(f)
    IN  IF watchlist.exc # "none" THEN Failed(f, watchlist.exc, 0)
        ELSE IF watchlist.value = <<>>
             THEN Outcome(f, "none", NoCount, <<>>, 0, <<>>, NoCsv)
        ELSE Present(f, fetch_quotes(watchlist.value, outcome, results), csv)

fetch_now(f, tickers, csv, outcome, results) ==
    Present(f, fetch_quotes([i \in DOMAIN tickers |-> Upper(tickers[i])],
                            outcome, results), csv)

\* main: a RuntimeError is caught, its message printed to stderr, exit status 1;
\* any other exception ends the interpreter with a traceback and status 1.
main(cmd, tickers, before, outcome, res) ==
    [cmd |-> cmd, args |-> tickers, before |-> before,
     outcome |-> IF res.calls = 0 THEN "not_sent" ELSE outcome,
     exc |-> res.exc, count |-> res.count, listed |-> res.listed,
     calls |-> res.calls, quotes |-> res.quotes, csv |-> res.csv,
     caught |-> (res.exc = "RuntimeError"),
     stderr |-> CASE res.exc = "none" -> "nothing"
                  [] res.exc = "RuntimeError" -> "message"
                  [] OTHER -> "traceback",
     exitCode |-> IF res.exc = "none" THEN 0 ELSE 1]

NoRun == main("none", <<>>, Absent, "ok", Failed(Absent, "none", 0))

-----------------------------------------------------------------------------
(* Inputs *)

\* tickers of one add or remove command line (nargs="+": at least one)
ArgLists == NonEmptySeqsUpTo(Tickers, MaxArgs)

\* tickers of one fetch command line
FetchArgs == NonEmptySeqsUpTo(Tickers, 1)

\* Responses the quote service gives to a command: no result; a quote for A
\* and an entry for AB without price; a quote for a lowercase symbol at price 0.
SampleResponses ==
    { <<>>,
      << Entry(TRUE, <<65>>, TRUE, 150, USD), Entry(TRUE, <<65, 66>>, FALSE, 0, <<>>) >>,
      << Entry(TRUE, <<97>>, TRUE, 0, <<>>) >> }

\* What the one request can come to: a response, or one of the failures.
Exchanges ==
    { [outcome |-> "ok", results |-> r] : r \in SampleResponses }
        \cup { [outcome |-> o, results |-> <<>>] : o \in NetFailures }

\* symbol values of a result entry: the empty string, A, a
ResultSymbols == { <<>>, <<65>>, <<97>> }

\* Result entries: symbol missing or one of ResultSymbols; price missing (null),
\* 0 (no currency given) or 150 (in USD).
ResultEntries ==
    { Entry(hs, IF hs THEN s ELSE <<>>, hp, IF hp THEN p ELSE 0,
            IF hp /\ p = 150 THEN USD ELSE <<>>) :
        hs \in BOOLEAN, s \in ResultSymbols, hp \in BOOLEAN, p \in { 0, 150 } }

ResultLists == SeqsUpTo(ResultEntries, MaxResults)

NotCalled == [exc |-> "none", quotes |-> <<>>, calls |-> 0]

-----------------------------------------------------------------------------
(* The command line: one process run per step *)

Init ==
    /\ file \in DiskFiles
    /\ run = NoRun
    /\ prior = NoRun
    /\ added = {}
    /\ T = <<>>
    /\ loaded = Ok(<<>>)
    /\ pc = "idle"
    /\ requested = <<>>
    /\ response = <<>>
    /\ fetched = NotCalled

\* One run of main: the handler's effect on the file and the run's record.
Exec(cmd, tickers, outcome, res) ==
    /\ file' = res.file
    /\ run' = main(cmd, tickers, file, outcome, res)
    /\ prior' = IF cmd = "list" THEN run ELSE NoRun
    /\ requested' = <<>>
    /\ response' = <<>>
    /\ fetched' = NotCalled
    /\ pc' = "idle"
    /\ UNCHANGED <<T, loaded>>

AddCmd ==
    \E tickers \in ArgLists :
        /\ Exec("add", tickers, "ok", add_tickers(file, tickers))
        /\ UNCHANGED added

RemoveCmd ==
    \E tickers \in ArgLists :
        /\ Exec("remove", tickers, "ok", remove_tickers(file, tickers))
        /\ UNCHANGED added

ListCmd ==
    /\ Exec("list", <<>>, "ok", list_watchlist(file))
    /\ UNCHANGED added

RefreshCmd ==
    \E csv \in BOOLEAN, x \in Exchanges :
        /\ Exec("refresh", <<>>, x.outcome,
                refresh_watchlist(file, csv, x.outcome, x.results))
        /\ UNCHANGED added

FetchCmd ==
    \E tickers \in FetchArgs, csv \in BOOLEAN, x \in Exchanges :
        /\ Exec("fetch", tickers, x.outcome,
                fetch_now(file, tickers, csv, x.outcome, x.results))
        /\ UNCHANGED added

\* fetch_quotes called on its own (as a test does), outside any command run
FetchQuotesCall ==
    \E tickers \in SeqsUpTo(Tickers, 1), x \in Exchanges :
        /\ requested' = tickers
        /\ response' = x.results
        /\ fetched' = fetch_quotes(tickers, x.outcome, x.results)
        /\ pc' = x.outcome
        /\ run' = NoRun
        /\ prior' = NoRun
        /\ UNCHANGED <<file, added, T, loaded>>

Next ==
    \/ AddCmd
    \/ RemoveCmd
    \/ ListCmd
    \/ RefreshCmd
    \/ FetchCmd
    \/ FetchQuotesCall

Spec == Init /\ [][Next]_vars

-----------------------------------------------------------------------------
(* A sequence of add commands on a fresh home directory *)

InitAdd ==
    /\ file = Absent
    /\ run = NoRun
    /\ prior = NoRun
    /\ added = {}
    /\ T = <<>>
    /\ loaded = Ok(<<>>)
    /\ pc = "idle"
    /\ requested = <<>>
    /\ response = <<>>
    /\ fetched = NotCalled

AddTracked ==
    \E tickers \in NonEmptySeqsUpTo(Tickers, MaxAddArgs) :
        /\ Exec("add", tickers, "ok", add_tickers(file, tickers))
        /\ added' = added \cup Range(tickers)

SpecAdd == InitAdd /\ [][AddTracked]_vars

-----------------------------------------------------------------------------
(* save_watchlist and load_watchlist called on their own *)

InitStore ==
    /\ file \in JsonFiles
    /\ run = NoRun
    /\ prior = NoRun
    /\ added = {}
    /\ T = <<>>
    /\ loaded = Ok(<<>>)
    /\ pc = "idle"
    /\ requested = <<>>
    /\ response = <<>>
    /\ fetched = NotCalled

SaveCall ==
    \E tickers \in SeqsUpTo(Tickers, MaxSaveLen) :
        /\ file' = save_watchlist(tickers)
        /\ T' = tickers
        /\ loaded' = Ok(<<>>)
        /\ pc' = "saved"
        /\ UNCHANGED <<run, prior, added, requested, response, fetched>>

LoadCall ==
    /\ pc \in { "idle", "saved" }
    /\ loaded' = load_watchlist(file)
    /\ pc' = IF pc = "saved" THEN "round_trip" ELSE "loaded"
    /\ UNCHANGED <<file, T, run, prior, added, requested, response, fetched>>

NextStore == SaveCall \/ LoadCall

SpecStore == InitStore /\ [][NextStore]_vars

-----------------------------------------------------------------------------
(* fetch_quotes called on its own against a given response *)

InitQuotes ==
    /\ file = Absent
    /\ run = NoRun
    /\ prior = NoRun
    /\ added = {}
    /\ T = <<>>
    /\ loaded = Ok(<<>>)
    /\ pc = "idle"
    /\ requested \in { <<>>, << <<65>> >>, << <<65>>, <<97, 98>> >> }
    /\ response \in ResultLists
    /\ fetched = NotCalled

\* pc records how the request went
ApplyFetch ==
    /\ pc = "idle"
    /\ \E outcome \in NetOutcomes :
        /\ fetched' = fetch_quotes(requested, outcome, response)
        /\ pc' = outcome
    /\ UNCHANGED <<file, run, prior, added, T, loaded, requested, response>>

SpecQuotes == InitQuotes /\ [][ApplyFetch]_vars

-----------------------------------------------------------------------------
(* Vocabulary of the properties *)

\* no lowercase letter in s
IsUpperStr(s) == \A i \in DOMAIN s : ~(s[i] >= 97 /\ s[i] <= 122)

\* strictly ascending: sorted and without duplicates
Ascending(q) == \A i, j \in DOMAIN q : i < j => StrLess(q[i], q[j])

\* f is a JSON array of strings
ArrayOfStrings(f) ==
    /\ f.kind = "array"
    /\ \A i \in DOMAIN f.items : f.items[i].kind = "str"

FileStrings(f) == [i \in DOMAIN f.items |-> f.items[i].s]

\* the stored form: a strictly ascending JSON array of uppercase strings
StoredForm(f) ==
    /\ ArrayOfStrings(f)
    /\ Ascending(FileStrings(f))
    /\ \A i \in DOMAIN f.items : IsUpperStr(f.items[i].s)

\* the set of tickers a watchlist file stands for
TickerSet(f) == Range(load_watchlist(f).value)

\* two spellings of one ticker
SameTicker(a, b) == Upper(a) = Upper(b)

-----------------------------------------------------------------------------
(* C1 *)

\* C1: after any sequence of add commands that starts from an absent file, the
\* file is the sorted, de-duplicated list of the uppercased form of every
\* ticker passed to any of the adds.
C1_AddsPersistUnion ==
    run.cmd = "add" =>
        /\ run.exc = "none"
        /\ ArrayOfStrings(file)
        /\ Ascending(FileStrings(file))
        /\ Range(FileStrings(file)) = { Upper(t) : t \in added }

\* All three spellings were added, over more than one command line: two tickers.
C1_Witness ==
    /\ run.cmd = "add"
    /\ run.before.kind = "array"
    /\ added = Tickers
    /\ FileStrings(file) = << <<65>>, <<65, 66>> >>

-----------------------------------------------------------------------------
(* C2 *)

\* C2 as claimed: a list run right after a remove shows no ticker matching a
\* removed argument, and the count the remove printed is the size of the set
\* difference between the tickers before and after it.
C2_RemoveCountIsSetDifference ==
    (run.cmd = "list" /\ prior.cmd = "remove" /\ prior.exc = "none") =>
        /\ \A i \in DOMAIN run.listed, j \in DOMAIN prior.args :
              ~SameTicker(run.listed[i], prior.args[j])
        /\ prior.count = Cardinality(TickerSet(prior.before) \ TickerSet(file))

\* C2 amended: the list shows no removed ticker, and the count is the number of
\* entries of the loaded list that match an argument; that is the size of the
\* set difference when the file held no ticker twice (in any letter case).
C2_RemoveCountIsEntriesRemoved ==
    (run.cmd = "list" /\ prior.cmd = "remove" /\ prior.exc = "none") =>
        LET existing == load_watchlist(prior.before).value
            hit == { i \in DOMAIN existing :
                        \E j \in DOMAIN prior.args : SameTicker(existing[i], prior.args[j]) }
        IN  /\ \A i \in DOMAIN run.listed, j \in DOMAIN prior.args :
                  ~SameTicker(run.listed[i], prior.args[j])
            /\ prior.count = Cardinality(hit)
            /\ Cardinality(Range(existing)) = Len(existing) =>
                  prior.count = Cardinality(TickerSet(prior.before) \ TickerSet(file))

\* A remove took both entries of a file that held one ticker twice; list follows.
C2_Witness ==
    /\ run.cmd = "list"
    /\ prior.cmd = "remove"
    /\ prior.count = 2
    /\ Cardinality(TickerSet(prior.before)) = 1
    /\ run.listed = <<>>

-----------------------------------------------------------------------------
(* C3 *)

\* C3 as claimed: save_watchlist(T) then load_watchlist() returns
\* sorted(set(uppercase(T))): uppercase, without duplicates, ascending.
C3_RoundTrip ==
    pc = "round_trip" =>
        /\ loaded.exc = "none"
        /\ Ascending(loaded.value)
        /\ \A i \in DOMAIN loaded.value : IsUpperStr(loaded.value[i])
        /\ Range(loaded.value) = { Upper(T[i]) : i \in DOMAIN T }

-----------------------------------------------------------------------------
(* C4 *)

\* C4: after a completed add or remove the file is a strictly ascending JSON
\* array of uppercase strings; an absent file is the empty watchlist and no
\* error for add, remove, list or refresh.
C4_StoredInvariant ==
    /\ (run.cmd \in { "add", "remove" } /\ run.exc = "none") => StoredForm(file)
    /\ (run.cmd \in { "add", "remove", "list", "refresh" } /\ run.before = Absent) =>
          /\ run.exc = "none"
          /\ run.exitCode = 0
          /\ run.cmd = "list" => run.listed = <<>>
          /\ run.cmd = "remove" => (run.count = 0 /\ file = ArrayFile(<<>>))
          /\ run.cmd = "refresh" => file = Absent

\* A remove rewrote a file that held a number and a mixed-case ticker.
C4_Witness ==
    /\ run.cmd = "remove"
    /\ run.exc = "none"
    /\ run.before = ArrayFile(<< StrItem(<<65, 98>>), NumItem(7) >>)
    /\ FileStrings(file) = << <<55>>, <<65, 66>> >>

-----------------------------------------------------------------------------
(* C5 *)

\* C5 as claimed: every failure of the quote request is raised as the one
\* RuntimeError, without retry, caught in main, its message printed to stderr,
\* exit status 1.
C5_NetworkFailureIsFetchError ==
    run.outcome \in NetFailures =>
        /\ run.exc = "RuntimeError"
        /\ run.caught
        /\ run.stderr = "message"
        /\ run.exitCode = 1
        /\ run.calls = 1

-----------------------------------------------------------------------------
(* C6 *)

\* C6: a command that ends with an error leaves the watchlist file as it was.
C6_FileUnchangedOnError ==
    run.exitCode # 0 => file = run.before

\* An add met a file that is valid JSON but no array; the file is as it was.
C6_Witness ==
    /\ run.exitCode = 1
    /\ run.cmd = "add"
    /\ run.exc = "ValueError"
    /\ file = OtherJsonFile

-----------------------------------------------------------------------------
(* C7 *)

\* the entry carries a symbol (a non-empty string) and a non-null price
Carries(e) == e.hasSymbol /\ e.symbol # <<>> /\ e.hasPrice

\* C7: for every result list of a response, the mapping holds a Quote for
\* exactly the entries that carry a symbol and a non-null price (0 included),
\* keyed by the uppercased symbol, one per key, with the price and currency of
\* the last such entry; nothing is raised; nothing else is in the mapping.
C7_PartialData ==
    (pc = "ok" /\ requested # <<>>) =>
        LET q == fetched.quotes
            carrying == { i \in DOMAIN response : Carries(response[i]) }
        IN  /\ fetched.exc = "none"
            /\ { q[i].symbol : i \in DOMAIN q }
                  = { Upper(response[i].symbol) : i \in carrying }
            /\ \A i, j \in DOMAIN q : q[i].symbol = q[j].symbol => i = j
            /\ \A i \in DOMAIN q : \E k \in carrying :
                  /\ Upper(response[k].symbol) = q[i].symbol
                  /\ \A m \in carrying :
                        Upper(response[m].symbol) = q[i].symbol => m <= k
                  /\ q[i].price = response[k].price
                  /\ q[i].currency = response[k].currency
            /\ \A i \in DOMAIN requested :
                  (\A k \in carrying : Upper(response[k].symbol) # Upper(requested[i]))
                     => \A m \in DOMAIN q : q[m].symbol # Upper(requested[i])

\* A quote at price 0 for a lowercase symbol is kept, an entry without price is
\* dropped, and the requested Ab is absent from the mapping.
C7_Witness ==
    /\ pc = "ok"
    /\ requested = << <<65>>, <<97, 98>> >>
    /\ response = << Entry(TRUE, <<97>>, TRUE, 0, <<>>), Entry(TRUE, <<65>>, FALSE, 0, <<>>) >>
    /\ fetched.quotes = << Quote(<<65>>, 0, <<>>) >>

-----------------------------------------------------------------------------
(* C8 *)

\* what load_watchlist makes of one element: the uppercased text of a string,
\* "7" for the number 7, "NONE" for null
LoadedText(item) ==
    CASE item.kind = "str" -> Upper(item.s)
      [] item.kind = "num" /\ item.n = 7 -> <<55>>
      [] item.kind = "null" -> <<78, 79, 78, 69>>

\* C8 as claimed: empty when the file is absent; an error when the file is
\* present but no JSON array of strings; otherwise the tickers uppercased, none
\* twice.
C8_LoadRejectsNonStrings ==
    pc \in { "loaded", "round_trip" } =>
        /\ file = Absent => loaded = Ok(<<>>)
        /\ (file # Absent /\ ~ArrayOfStrings(file)) => loaded.exc = "ValueError"
        /\ ArrayOfStrings(file) =>
              /\ loaded.exc = "none"
              /\ Range(loaded.value) = { Upper(file.items[i].s) : i \in DOMAIN file.items }
              /\ Cardinality(Range(loaded.value)) = Len(loaded.value)

\* C8 amended: empty when the file is absent; a ValueError when the file is not
\* JSON or is JSON but no array; otherwise one ticker per element, in the
\* file's order, duplicates kept: the uppercased str() of the element.
C8_LoadCoercesElements ==
    pc \in { "loaded", "round_trip" } =>
        /\ file = Absent => loaded = Ok(<<>>)
        /\ file.kind \in { "json_other", "invalid" } => loaded.exc = "ValueError"
        /\ file.kind = "array" =>
              /\ loaded.exc = "none"
              /\ Len(loaded.value) = Len(file.items)
              /\ \A i \in DOMAIN file.items : loaded.value[i] = LoadedText(file.items[i])

\* A file holding null and a lowercase ticker was loaded.
C8_Witness ==
    /\ pc = "loaded"
    /\ file = ArrayFile(<< NullItem, StrItem(<<97>>) >>)
    /\ loaded = Ok(<< <<78, 79, 78, 69>>, <<65>> >>)

-----------------------------------------------------------------------------
(* C9 *)

\* C9 as claimed: fetch_quotes on an empty list gives an empty mapping without
\* a request; every fetch and every refresh command makes exactly one request.
C9_OneRequestPerCommand ==
    /\ (pc \in NetOutcomes /\ requested = <<>>) =>
          (fetched.quotes = <<>> /\ fetched.exc = "none" /\ fetched.calls = 0)
    /\ run.cmd \in { "fetch", "refresh" } => run.calls = 1

\* C9 amended: fetch_quotes on an empty list gives an empty mapping without a
\* request; every fetch command makes exactly one request; a refresh makes
\* exactly one when the loaded watchlist is not empty, and none when the file
\* is absent, holds an empty array or cannot be loaded.
C9_OneRequestUnlessEmpty ==
    /\ (pc \in NetOutcomes /\ requested = <<>>) =>
          (fetched.quotes = <<>> /\ fetched.exc = "none" /\ fetched.calls = 0)
    /\ (pc \in NetOutcomes /\ requested # <<>>) => fetched.calls = 1
    /\ run.cmd = "fetch" => run.calls = 1
    /\ run.cmd = "refresh" =>
          run.calls = IF run.before.kind = "array" /\ run.before.items # <<>>
                      THEN 1 ELSE 0

\* fetch_quotes was called with no ticker while the network was down.
C9_Witness ==
    /\ pc = "refused"
    /\ requested = <<>>
    /\ fetched.calls = 0

-----------------------------------------------------------------------------
(* C10 *)

\* C10 as claimed: the number add prints is the number of tickers the call
\* added: the size of the watchlist after the add minus its size before.
C10_AddPrintsCountAdded ==
    (run.cmd = "add" /\ run.exc = "none") =>
        run.count = Cardinality(TickerSet(file)) - Cardinality(TickerSet(run.before))

====
